---- MODULE Spec2Model ----
(***************************************************************************)
(* tf-crnn: label/length preprocessing (src/src/preprocessing.py) and the  *)
(* CTC model assembly with its CER metric (src/src/model.py).              *)
(*                                                                         *)
(* Strings are sequences of one-character strings; a character unit of a   *)
(* label is such a sequence.  Real numbers are exact rationals <<n, d>>.   *)
(***************************************************************************)
EXTENDS Integers, Sequences, FiniteSets, TLC

VARIABLES
  \* preprocess_csv
  parameters, csv_in, dataframe, out_csv, pre_pc,
  \* greedy decoding inside warp_cer_metric
  dec_in, dec_out, dec_pc,
  \* CERMetric weights, the mean Keras keeps of warp_cer_metric, and the
  \* window totals since the last reset (history, to state the claims)
  distance, count_chars, cer_raised,
  mean_total, mean_count, last_value, last_chars, win_distance, win_chars,
  \* get_crnn_output
  arch, conv_layers, build_pc

preVars == <<parameters, csv_in, dataframe, out_csv, pre_pc>>
decVars == <<dec_in, dec_out, dec_pc>>
cerVars == <<distance, count_chars, cer_raised, mean_total, mean_count,
             last_value, last_chars, win_distance, win_chars>>
crnnVars == <<arch, conv_layers, build_pc>>

vars == <<preVars, decVars, cerVars, crnnVars>>

(***************************************************************************)
(* Bounds of the model.                                                    *)
(***************************************************************************)
MaxLabelLen == 3
MaxCharsBound == 2
MaxTimeSteps == 8
MaxBatchSize == 2
MaxBatchTimeSteps == 1
MaxUpdates == 2
MaxBlocks == 2

Paths == {"img1", "img2"}
Chars == {"A", "B"}
Delimiter == "|"
LabelChars == Chars \cup {Delimiter}
NPools == {1, 2}
InputShape == <<2, 6>>
NoFile == "NoFile"

Max(a, b) == IF a >= b THEN a ELSE b

SeqsUpTo(S, n) == UNION {[1..k -> S] : k \in 0..n}

RawLabels == SeqsUpTo(LabelChars, MaxLabelLen)

(***************************************************************************)
(* Collaborators outside src/.                                             *)
(***************************************************************************)
\* Width and height of the image file behind a path.
get_image_shape_without_loading(path) ==
  IF path = "img1" THEN <<5, 3>> ELSE <<5, 1>>

\* The alphabet: one-character units, codes dense from 1, code 0 reserved.
Alphabets ==
  {[u \in {<<"A">>} |-> 1],
   [u \in {<<"A">>, <<"B">>} |-> IF u = <<"A">> THEN 2 ELSE 1]}

ParamsSet ==
  [alphabet : Alphabets,
   string_split_delimiter : {Delimiter},
   max_chars_per_string : 1..MaxCharsBound,
   n_pool : NPools,
   input_shape : {InputShape}]

\* Input CSV files: one row per image file, at least one row.
Rows == [paths : Paths, labels : RawLabels]

InputCSVs ==
  {df \in UNION {[1..k -> Rows] : k \in 1..Cardinality(Paths)} :
     \A i, j \in DOMAIN df : i # j => df[i].paths # df[j].paths}

(***************************************************************************)
(* preprocessing.py                                                        *)
(***************************************************************************)
\* str.split(sep): the pieces between separators, empty pieces included.
RECURSIVE str_split(_, _)
str_split(s, sep) ==
  IF \A i \in DOMAIN s : s[i] # sep
  THEN <<s>>
  ELSE LET i == CHOOSE k \in DOMAIN s :
                  s[k] = sep /\ \A m \in 1..(k - 1) : s[m] # sep
       IN <<SubSeq(s, 1, i - 1)>> \o str_split(SubSeq(s, i + 1, Len(s)), sep)

\* re.sub(re.escape(delimiter), '', x)
label_string(x, delimiter) == SelectSeq(x, LAMBDA c : c # delimiter)

\* Variant: the first piece of the split is dropped unseen.
labels_chars_skip_first(label, split_char) ==
  SelectSeq(Tail(str_split(label, split_char)), LAMBDA c : c # <<>>)

\* [c for c in label.split(split_char) if c]
labels_chars(label, split_char) ==
  SelectSeq(str_split(label, split_char), LAMBDA c : c # <<>>)

\* Variant: max_width zeros are appended whatever the length of ls.
dense_code_pads_max_width(ls, max_width) ==
  ls \o [k \in 1..max_width |-> 0]

\* Variant: the filler is -1, the filler of decoded predictions.
dense_code_padded_with_minus_one(ls, max_width) ==
  ls \o [k \in 1..Max(0, max_width - Len(ls)) |-> -1]

\* ls + np.maximum(0, max_width - len(ls)) * [0]
dense_code(ls, max_width) ==
  ls \o [k \in 1..Max(0, max_width - Len(ls)) |-> 0]

\* Variant: the length of the raw label, delimiters included.
seq_length_of_raw_label(label, cl) == Len(label)

\* len(cl)
seq_length(label, cl) == Len(cl)

\* table_str2int[c] raises KeyError for a unit that is no key of the table.
raises_KeyError(labels, split_char, table_str2int) ==
  \E i \in DOMAIN labels :
    \E k \in DOMAIN labels_chars(labels[i], split_char) :
      labels_chars(labels[i], split_char)[k] \notin DOMAIN table_str2int

\* Variant: units missing from the table are skipped (dict.get and a filter).
convert_skipping_unknown_units(labels, split_char, max_width, table_str2int) ==
  LET codes_list ==
        [i \in DOMAIN labels |->
           LET list_char ==
                 SelectSeq(labels_chars(labels[i], split_char),
                           LAMBDA c : c \in DOMAIN table_str2int)
           IN [k \in DOMAIN list_char |-> table_str2int[list_char[k]]]]
  IN [error |-> "none",
      dense_codes |->
        [i \in DOMAIN labels |-> dense_code(codes_list[i], max_width)],
      seq_lengths |->
        [i \in DOMAIN labels |-> seq_length(labels[i], codes_list[i])]]

convert_label_to_dense_codes(labels, split_char, max_width, table_str2int) ==
  IF raises_KeyError(labels, split_char, table_str2int)
  THEN [error |-> "KeyError", dense_codes |-> <<>>, seq_lengths |-> <<>>]
  ELSE LET codes_list ==
             [i \in DOMAIN labels |->
                LET list_char == labels_chars(labels[i], split_char)
                IN [k \in DOMAIN list_char |-> table_str2int[list_char[k]]]]
       IN [error |-> "none",
           dense_codes |->
             [i \in DOMAIN labels |-> dense_code(codes_list[i], max_width)],
           seq_lengths |->
             [i \in DOMAIN labels |-> seq_length(labels[i], codes_list[i])]]

\* new_w = min(new_h * w / h, target_shape[1]), as a rational <<n, d>>.
compute_length_inputs(path, target_shape) ==
  LET w == get_image_shape_without_loading(path)[1]
      h == get_image_shape_without_loading(path)[2]
      new_h == target_shape[1]
  IN IF new_h * w <= target_shape[2] * h
     THEN <<new_h * w, h>>
     ELSE <<target_shape[2], 1>>

\* np.floor(x / n_pool)
input_length(x, n_pool) == x[1] \div (x[2] * n_pool)

\* dataframe.label_len <= parameters.max_chars_per_string
keeps_short_label(label_len, max_chars_per_string) ==
  label_len <= max_chars_per_string

\* Variant: a label as long as the input is kept.
keeps_label_not_longer_than_input(label_len, in_len) == label_len <= in_len

\* dataframe.label_len < dataframe.input_length
keeps_label_shorter_than_input(label_len, in_len) == label_len < in_len

\* [str(ldc) for ldc in list_ldc], ' '.join(list_slc)
RECURSIVE join_codes(_)
join_codes(list_ldc) ==
  IF list_ldc = <<>> THEN <<>>
  ELSE IF Len(list_ldc) = 1 THEN <<ToString(list_ldc[1])>>
  ELSE <<ToString(list_ldc[1]), " ">> \o join_codes(Tail(list_ldc))

\* The frame with its derived columns, after both row filters.
filtered_dataframe(df, p) ==
  LET full == [i \in DOMAIN df |->
                 [paths |-> df[i].paths,
                  labels |-> df[i].labels,
                  label_string |->
                    label_string(df[i].labels, p.string_split_delimiter),
                  label_len |->
                    Len(label_string(df[i].labels, p.string_split_delimiter)),
                  input_length |->
                    input_length(compute_length_inputs(df[i].paths, p.input_shape),
                                 p.n_pool)]]
  IN SelectSeq(full,
       LAMBDA r : /\ keeps_short_label(r.label_len, p.max_chars_per_string)
                  /\ keeps_label_shorter_than_input(r.label_len, r.input_length))

IdlePreprocess ==
  /\ parameters = <<>>
  /\ csv_in = <<>>
  /\ dataframe = <<>>
  /\ out_csv = NoFile
  /\ pre_pc = "idle"

IdleDecode == dec_in = <<>> /\ dec_out = <<>> /\ dec_pc = "idle"

IdleCER ==
  /\ distance = 0
  /\ count_chars = 0
  /\ cer_raised = "idle"
  /\ mean_total = <<>>
  /\ mean_count = 0
  /\ last_value = <<>>
  /\ last_chars = 0
  /\ win_distance = 0
  /\ win_chars = 0

IdleCRNN == arch = <<>> /\ conv_layers = <<>> /\ build_pc = "idle"

preprocess_csv ==
  /\ pre_pc = "ready"
  /\ LET df == filtered_dataframe(csv_in, parameters)
         labels == [i \in DOMAIN df |-> df[i].labels]
         enc == convert_label_to_dense_codes(labels,
                                             parameters.string_split_delimiter,
                                             parameters.max_chars_per_string,
                                             parameters.alphabet)
     IN /\ dataframe' = df
        /\ IF enc.error = "KeyError"
           THEN /\ pre_pc' = "KeyError"
                /\ out_csv' = NoFile
           ELSE /\ pre_pc' = "done"
                /\ out_csv' =
                     [i \in DOMAIN df |->
                        [paths |-> df[i].paths,
                         label_codes |-> join_codes(enc.dense_codes[i]),
                         label_len |-> enc.seq_lengths[i]]]
  /\ UNCHANGED <<parameters, csv_in, decVars, cerVars, crnnVars>>

InitPreprocess ==
  /\ parameters \in ParamsSet
  /\ csv_in \in InputCSVs
  /\ dataframe = <<>>
  /\ out_csv = NoFile
  /\ pre_pc = "ready"
  /\ IdleDecode /\ IdleCER /\ IdleCRNN

NextPreprocess == preprocess_csv

SpecPreprocess == InitPreprocess /\ [][NextPreprocess]_vars

(***************************************************************************)
(* model.py: greedy decoding, warp_cer_metric and CERMetric                *)
(***************************************************************************)
\* The alphabet of the training runs: units A, B, 1 with codes 1, 2, 3.
ExampleAlphabet ==
  [u \in {<<"A">>, <<"B">>, <<"1">>} |->
     IF u = <<"A">> THEN 1 ELSE IF u = <<"B">> THEN 2 ELSE 3]

\* parameters.alphabet.n_classes: the codes of the units and the reserved 0.
n_classes(alphabet) == Cardinality(DOMAIN alphabet) + 1

Classes == 0..(n_classes(ExampleAlphabet) - 1)

\* Consecutive repeats merged (merge_repeated=True of the greedy decoder).
RECURSIVE merge_repeated(_)
merge_repeated(path) ==
  IF Len(path) <= 1 THEN path
  ELSE IF path[1] = path[2] THEN merge_repeated(Tail(path))
  ELSE <<path[1]>> \o merge_repeated(Tail(path))

\* The blank the decoder removes: the call passes none, so the last class.
blank_index(num_classes) == num_classes - 1

\* ctc_decode(y_pred, input_length, greedy=True)[0] for one sample, y_pred
\* given by its argmax class at each of the sample's input_length steps.
ctc_decode_greedy(path, num_classes) ==
  SelectSeq(merge_repeated(path), LAMBDA c : c # blank_index(num_classes))

\* Rows of the dense result are filled with -1 up to the longest row.
to_dense(rows) ==
  LET width == IF rows = <<>> THEN 0
               ELSE CHOOSE w \in {Len(rows[i]) : i \in DOMAIN rows} :
                      \A i \in DOMAIN rows : Len(rows[i]) <= w
  IN [i \in DOMAIN rows |-> rows[i] \o [k \in 1..(width - Len(rows[i])) |-> -1]]

\* tf.where(tf.not_equal(pred_codes_dense, -1)) and gather_nd, per row
pred_codes_sparse(pred_codes_dense) ==
  [i \in DOMAIN pred_codes_dense |->
     SelectSeq(pred_codes_dense[i], LAMBDA c : c # -1)]

\* tf.where(tf.not_equal(label_codes, 0)) and gather_nd, per row
label_sparse(label_codes) ==
  [i \in DOMAIN label_codes |-> SelectSeq(label_codes[i], LAMBDA c : c # 0)]

Min3(a, b, c) == IF a <= b /\ a <= c THEN a ELSE IF b <= c THEN b ELSE c

\* tf.edit_distance(hypothesis, truth, normalize=False) for one row
RECURSIVE edit_distance(_, _)
edit_distance(hyp, truth) ==
  IF hyp = <<>> THEN Len(truth)
  ELSE IF truth = <<>> THEN Len(hyp)
  ELSE Min3(edit_distance(Tail(hyp), truth) + 1,
            edit_distance(hyp, Tail(truth)) + 1,
            edit_distance(Tail(hyp), Tail(truth))
              + (IF Head(hyp) = Head(truth) THEN 0 ELSE 1))

RECURSIVE reduce_sum(_)
reduce_sum(xs) == IF xs = <<>> THEN 0 ELSE Head(xs) + reduce_sum(Tail(xs))

\* Floating-point values: a rational in lowest terms, or inf, or nan.
RECURSIVE GCD(_, _)
GCD(a, b) == IF b = 0 THEN a ELSE GCD(b, a % b)

Abs(x) == IF x < 0 THEN -x ELSE x

Rat(n, d) ==
  LET g == GCD(Abs(n), Abs(d))
      sgn == IF d < 0 THEN -1 ELSE 1
  IN [k |-> "num", n |-> sgn * (n \div g), d |-> sgn * (d \div g)]

NaN == [k |-> "nan", n |-> 0, d |-> 0]
Inf == [k |-> "inf", n |-> 0, d |-> 0]
One == Rat(1, 1)
Zero == Rat(0, 1)

\* tf.divide(x, y) of two integers: true division in floating point.
tf_divide(x, y) ==
  IF y # 0 THEN Rat(x, y) ELSE IF x = 0 THEN NaN ELSE Inf

float_add(a, b) ==
  IF a.k = "nan" \/ b.k = "nan" THEN NaN
  ELSE IF a.k = "inf" \/ b.k = "inf" THEN Inf
  ELSE Rat(a.n * b.d + b.n * a.d, a.d * b.d)

\* warp_cer_metric on one batch: a sequence of samples, each with its
\* per-timestep argmax, its padded label codes and its label length.
warp_cer_metric(batch) ==
  LET pred_codes_dense ==
        to_dense([i \in DOMAIN batch |->
                    ctc_decode_greedy(batch[i].y_pred, n_classes(ExampleAlphabet))])
      pred == pred_codes_sparse(pred_codes_dense)
      truth == label_sparse([i \in DOMAIN batch |-> batch[i].label_codes])
      dist == reduce_sum([i \in DOMAIN batch |-> edit_distance(pred[i], truth[i])])
      chars == reduce_sum([i \in DOMAIN batch |-> batch[i].label_seq_length])
  IN [distance |-> dist, count_chars |-> chars, value |-> tf_divide(dist, chars)]

\* The value Keras reports for a metric given as a function: the mean of
\* the values the function returned since the last reset.
reported_cer(total, count) ==
  IF count = 0 THEN Zero
  ELSE IF total.k # "num" THEN total
  ELSE Rat(total.n, total.d * count)

\* CERMetric.result
CERMetric_result(dist, chars) ==
  IF chars > 0 THEN tf_divide(dist, chars) ELSE One

LabelWidth == MaxCharsBound

\* Codes a label may hold: neither the padding 0 nor the decoder's blank.
LabelCodes ==
  {c \in Classes : c # 0 /\ c # blank_index(n_classes(ExampleAlphabet))}

Samples ==
  [y_pred : SeqsUpTo(Classes, MaxBatchTimeSteps),
   codes : SeqsUpTo(LabelCodes, LabelWidth)]

BatchOf(picks) ==
  [i \in DOMAIN picks |->
     [y_pred |-> picks[i].y_pred,
      label_codes |-> dense_code(picks[i].codes, LabelWidth),
      label_seq_length |-> Len(picks[i].codes)]]

Batches == {BatchOf(picks) : picks \in UNION {[1..k -> Samples] : k \in 1..MaxBatchSize}}

\* One training or evaluation step: the compiled metric runs on the batch.
metric_update ==
  /\ cer_raised # "idle"
  /\ mean_count < MaxUpdates
  /\ \E batch \in Batches :
       LET r == warp_cer_metric(batch)
       IN /\ mean_total' = float_add(mean_total, r.value)
          /\ mean_count' = mean_count + 1
          /\ last_value' = r.value
          /\ last_chars' = r.count_chars
          /\ win_distance' = win_distance + r.distance
          /\ win_chars' = win_chars + r.count_chars
  /\ UNCHANGED <<distance, count_chars, cer_raised, preVars, decVars, crnnVars>>

\* Epoch start: Keras resets the metrics of the model.
reset_metrics ==
  /\ cer_raised # "idle"
  /\ mean_count > 0
  /\ mean_total' = Zero
  /\ mean_count' = 0
  /\ win_distance' = 0
  /\ win_chars' = 0
  /\ UNCHANGED <<distance, count_chars, cer_raised, last_value, last_chars,
                 preVars, decVars, crnnVars>>

\* CERMetric.update_state: pred_sequence_length and true_sequence_length are
\* bound nowhere, so the call raises NameError before either weight changes.
CERMetric_update_state ==
  /\ cer_raised = "none"
  /\ cer_raised' = "NameError"
  /\ UNCHANGED <<distance, count_chars, mean_total, mean_count, last_value,
                 last_chars, win_distance, win_chars, preVars, decVars, crnnVars>>

\* CERMetric.reset_states
CERMetric_reset_states ==
  /\ cer_raised # "idle"
  /\ distance' = 0
  /\ count_chars' = 0
  /\ cer_raised' = "none"
  /\ UNCHANGED <<mean_total, mean_count, last_value, last_chars, win_distance,
                 win_chars, preVars, decVars, crnnVars>>

\* The metrics as the reset at the start of the first epoch leaves them.
InitCER ==
  /\ distance = 0
  /\ count_chars = 0
  /\ cer_raised = "none"
  /\ mean_total = Zero
  /\ mean_count = 0
  /\ last_value = Zero
  /\ last_chars = 0
  /\ win_distance = 0
  /\ win_chars = 0
  /\ IdlePreprocess /\ IdleDecode /\ IdleCRNN

NextCER ==
  \/ metric_update
  \/ reset_metrics
  \/ CERMetric_update_state
  \/ CERMetric_reset_states

SpecCER == InitCER /\ [][NextCER]_vars

\* The decoding step of warp_cer_metric on one sample.
greedy_decode ==
  /\ dec_pc = "ready"
  /\ dec_out' = pred_codes_sparse(
                  to_dense(<<ctc_decode_greedy(dec_in, n_classes(ExampleAlphabet))>>))[1]
  /\ dec_pc' = "done"
  /\ UNCHANGED <<dec_in, preVars, cerVars, crnnVars>>

InitDecode ==
  /\ dec_in \in SeqsUpTo(Classes, MaxTimeSteps)
  /\ dec_out = <<>>
  /\ dec_pc = "ready"
  /\ IdlePreprocess /\ IdleCER /\ IdleCRNN

NextDecode == greedy_decode

SpecDecode == InitDecode /\ [][NextDecode]_vars

(***************************************************************************)
(* model.py: get_crnn_output                                               *)
(***************************************************************************)
ArchSet ==
  [cnn_features_list : SeqsUpTo({64}, MaxBlocks),
   cnn_kernel_size : SeqsUpTo({3}, MaxBlocks),
   cnn_stride_size : SeqsUpTo({<<1, 1>>}, MaxBlocks),
   cnn_pool_size : SeqsUpTo({<<2, 2>>}, MaxBlocks),
   cnn_pool_strides : SeqsUpTo({<<2, 2>>}, MaxBlocks),
   cnn_batch_norm : SeqsUpTo(BOOLEAN, MaxBlocks)]

\* zip(...) stops at the shortest of its arguments.
zip_length(a) ==
  CHOOSE n \in {Len(a.cnn_features_list), Len(a.cnn_kernel_size),
                Len(a.cnn_stride_size), Len(a.cnn_pool_size),
                Len(a.cnn_pool_strides), Len(a.cnn_batch_norm)} :
    /\ n <= Len(a.cnn_features_list) /\ n <= Len(a.cnn_kernel_size)
    /\ n <= Len(a.cnn_stride_size) /\ n <= Len(a.cnn_pool_size)
    /\ n <= Len(a.cnn_pool_strides) /\ n <= Len(a.cnn_batch_norm)

\* [ConvBlock(ft, ks, ss, 'same', psz, pst, bn) for ... in cnn_params]
make_conv_layers(a) ==
  [i \in 1..zip_length(a) |->
     [features |-> a.cnn_features_list[i],
      kernel_size |-> a.cnn_kernel_size[i],
      stride |-> a.cnn_stride_size[i],
      cnn_padding |-> "same",
      pool_size |-> a.cnn_pool_size[i],
      pool_strides |-> a.cnn_pool_strides[i],
      batchnorm |-> a.cnn_batch_norm[i]]]

\* conv_layers[0] raises IndexError on an empty list; otherwise the network
\* is built from the blocks of conv_layers.
get_crnn_output ==
  /\ build_pc = "ready"
  /\ conv_layers' = make_conv_layers(arch)
  /\ build_pc' = IF make_conv_layers(arch) = <<>> THEN "IndexError" ELSE "built"
  /\ UNCHANGED <<arch, preVars, decVars, cerVars>>

InitCRNN ==
  /\ arch \in ArchSet
  /\ conv_layers = <<>>
  /\ build_pc = "ready"
  /\ IdlePreprocess /\ IdleDecode /\ IdleCER

NextCRNN == get_crnn_output

SpecCRNN == InitCRNN /\ [][NextCRNN]_vars

(***************************************************************************)
(* Properties of preprocess_csv.  The right-hand sides are written from    *)
(* the string, not from the operators above.                               *)
(***************************************************************************)
RECURSIVE StripDelims(_)
StripDelims(s) ==
  IF s = <<>> THEN <<>>
  ELSE IF Head(s) = Delimiter THEN StripDelims(Tail(s))
  ELSE <<Head(s)>> \o StripDelims(Tail(s))

\* The maximal delimiter-free, non-empty pieces of a label, left to right.
RECURSIVE UnitsAcc(_, _)
UnitsAcc(s, cur) ==
  IF s = <<>> THEN (IF cur = <<>> THEN <<>> ELSE <<cur>>)
  ELSE IF Head(s) = Delimiter
       THEN (IF cur = <<>> THEN <<>> ELSE <<cur>>) \o UnitsAcc(Tail(s), <<>>)
       ELSE UnitsAcc(Tail(s), Append(cur, Head(s)))

UnitsOf(label) == UnitsAcc(label, <<>>)

RECURSIVE Concat(_)
Concat(units) == IF units = <<>> THEN <<>> ELSE Head(units) \o Concat(Tail(units))

\* floor(min(target_height * width / height, target_width) / n_pool)
ExpectedInputLength(path, p) ==
  LET w == get_image_shape_without_loading(path)[1]
      h == get_image_shape_without_loading(path)[2]
      th == p.input_shape[1]
      tw == p.input_shape[2]
  IN CHOOSE k \in 0..tw :
       /\ k * p.n_pool * h <= th * w /\ k * p.n_pool <= tw
       /\ ~ ((k + 1) * p.n_pool * h <= th * w /\ (k + 1) * p.n_pool <= tw)

Feasible(row, p) ==
  /\ Len(StripDelims(row.labels)) <= p.max_chars_per_string
  /\ Len(StripDelims(row.labels)) < ExpectedInputLength(row.paths, p)

InputRow(path) == csv_in[CHOOSE i \in DOMAIN csv_in : csv_in[i].paths = path]

\* The integer codes written in a space-joined text field.
CodesOf(text) ==
  [k \in 1..((Len(text) + 1) \div 2) |->
     CHOOSE n \in -1..9 : ToString(n) = text[2 * k - 1]]

WellJoined(text) ==
  /\ Len(text) % 2 = 1
  /\ \A k \in DOMAIN text :
       IF k % 2 = 0 THEN text[k] = " "
       ELSE \E n \in -1..9 : ToString(n) = text[k]

NonZero(codes) == SelectSeq(codes, LAMBDA c : c # 0)

HasUnknownUnit(row, p) ==
  \E k \in DOMAIN UnitsOf(row.labels) :
    UnitsOf(row.labels)[k] \notin DOMAIN p.alphabet

\* C1: a sample is retained if and only if label_len <= max_chars_per_string
\* and label_len < floor(min(target_height * w / h, target_width) / n_pool):
\* the retained frame holds exactly those rows, and a written output holds
\* exactly those rows.
ThmC1_RetainedIffFeasible ==
  pre_pc # "ready" =>
    /\ \A i \in DOMAIN csv_in :
         (\E j \in DOMAIN dataframe : dataframe[j].paths = csv_in[i].paths)
           <=> Feasible(csv_in[i], parameters)
    /\ pre_pc = "done" =>
         \A i \in DOMAIN csv_in :
           (\E j \in DOMAIN out_csv : out_csv[j].paths = csv_in[i].paths)
             <=> Feasible(csv_in[i], parameters)

\* One row is written, another is dropped by the input-length filter alone.
WitC1_KeptAndDroppedByInputLength ==
  /\ pre_pc = "done"
  /\ Len(out_csv) = 1
  /\ \E i \in DOMAIN csv_in :
       /\ Len(StripDelims(csv_in[i].labels)) <= parameters.max_chars_per_string
       /\ Len(StripDelims(csv_in[i].labels)) >=
            ExpectedInputLength(csv_in[i].paths, parameters)
       /\ Len(StripDelims(csv_in[i].labels)) > 0

\* C2: every written row has exactly max_chars_per_string code slots; the
\* first true_length slots are the codes of the label's units in label
\* order and every later slot is 0.
ThmC2_DenseCodesPadded ==
  pre_pc = "done" =>
    \A j \in DOMAIN out_csv :
      LET codes == CodesOf(out_csv[j].label_codes)
          units == UnitsOf(InputRow(out_csv[j].paths).labels)
          n == out_csv[j].label_len
      IN /\ WellJoined(out_csv[j].label_codes)
         /\ Len(codes) = parameters.max_chars_per_string
         /\ n = Len(units)
         /\ n <= Len(codes)
         /\ \A k \in 1..n :
              /\ units[k] \in DOMAIN parameters.alphabet
              /\ codes[k] = parameters.alphabet[units[k]]
         /\ \A k \in (n + 1)..Len(codes) : codes[k] = 0

\* A written row with two different units followed by no padding, and one
\* with padding.
WitC2_CodesThenPadding ==
  /\ pre_pc = "done"
  /\ \E j \in DOMAIN out_csv :
       /\ out_csv[j].label_len = 2
       /\ CodesOf(out_csv[j].label_codes)[1] # CodesOf(out_csv[j].label_codes)[2]
  /\ \E j \in DOMAIN out_csv :
       /\ out_csv[j].label_len = 1
       /\ out_csv[j].label_codes[Len(out_csv[j].label_codes)] = "0"

\* C3: for every written row the true_length written equals the label_len
\* column the two filters used, which is the character count of the
\* delimiter-stripped label.
ThmC3_TrueLengthIsLabelLen ==
  pre_pc = "done" =>
    /\ Len(out_csv) = Len(dataframe)
    /\ \A j \in DOMAIN out_csv :
         /\ out_csv[j].paths = dataframe[j].paths
         /\ out_csv[j].label_len = dataframe[j].label_len
         /\ dataframe[j].label_len =
              Len(StripDelims(InputRow(out_csv[j].paths).labels))

\* A written row whose raw label holds delimiters and two units.
WitC3_DelimitedLabelWritten ==
  /\ pre_pc = "done"
  /\ \E j \in DOMAIN out_csv :
       /\ out_csv[j].label_len = 2
       /\ Len(InputRow(out_csv[j].paths).labels) = 3

\* C4: for every written row, decoding the non-zero codes through the
\* alphabet and concatenating the units gives the delimiter-stripped label.
ThmC4_RoundTrip ==
  pre_pc = "done" =>
    \A j \in DOMAIN out_csv :
      LET codes == NonZero(CodesOf(out_csv[j].label_codes))
      IN /\ \A k \in DOMAIN codes :
              \E u \in DOMAIN parameters.alphabet : parameters.alphabet[u] = codes[k]
         /\ Concat([k \in DOMAIN codes |->
                      CHOOSE u \in DOMAIN parameters.alphabet :
                        parameters.alphabet[u] = codes[k]])
              = StripDelims(InputRow(out_csv[j].paths).labels)

\* A written row whose label is "B|A" or "A|B" under a two-unit alphabet.
WitC4_TwoUnitsDecoded ==
  /\ pre_pc = "done"
  /\ \E j \in DOMAIN out_csv :
       /\ StripDelims(InputRow(out_csv[j].paths).labels) = <<"B", "A">>
       /\ Len(NonZero(CodesOf(out_csv[j].label_codes))) = 2

\* C5 as stated: whenever any input sample has a unit outside the alphabet,
\* the run ends in an error and writes no output.
ClaimC5_AnyUnknownUnitAborts ==
  (pre_pc # "ready" /\ \E i \in DOMAIN csv_in : HasUnknownUnit(csv_in[i], parameters))
    => (pre_pc = "KeyError" /\ out_csv = NoFile)

\* C5 amended: whenever a sample that passes both length filters has a unit
\* outside the alphabet, the run ends in an error and writes no output.
ThmC5_FeasibleUnknownUnitAborts ==
  (pre_pc # "ready" /\ \E i \in DOMAIN csv_in :
      Feasible(csv_in[i], parameters) /\ HasUnknownUnit(csv_in[i], parameters))
    => (pre_pc = "KeyError" /\ out_csv = NoFile)

\* The run aborted although another row was feasible and encodable.
WitC5_AbortedWithGoodRow ==
  /\ pre_pc = "KeyError"
  /\ out_csv = NoFile
  /\ \E i \in DOMAIN csv_in :
       Feasible(csv_in[i], parameters) /\ HasUnknownUnit(csv_in[i], parameters)
  /\ \E i \in DOMAIN csv_in :
       /\ Feasible(csv_in[i], parameters)
       /\ ~ HasUnknownUnit(csv_in[i], parameters)
       /\ Len(StripDelims(csv_in[i].labels)) > 0

\* C10: for every written row the number of non-zero codes equals the
\* true_length written beside them.
ThmC10_NonZeroCountIsTrueLength ==
  pre_pc = "done" =>
    \A j \in DOMAIN out_csv :
      Len(NonZero(CodesOf(out_csv[j].label_codes))) = out_csv[j].label_len

\* A written row with one real code and one padding slot.
WitC10_PaddedRow ==
  /\ pre_pc = "done"
  /\ \E j \in DOMAIN out_csv :
       /\ out_csv[j].label_len = 1
       /\ Len(CodesOf(out_csv[j].label_codes)) = 2

(***************************************************************************)
(* Properties of the CER metric, of greedy decoding and of model assembly. *)
(***************************************************************************)
\* C6 as stated: the CER the training model reports equals the summed edit
\* distance divided by the summed true character count of all batches since
\* the last reset (checked on the windows in which every batch has a true
\* character, so that no division by zero is involved).
ClaimC6_ReportedIsRatioOfSums ==
  (mean_count > 0 /\ win_chars > 0 /\ mean_total.k = "num") =>
    reported_cer(mean_total, mean_count) = Rat(win_distance, win_chars)

\* C7 as stated: a window whose true character count is 0 gives exactly 1.0,
\* from CERMetric.result and from warp_cer_metric alike.
ClaimC7_ZeroCharsGivesOne ==
  /\ count_chars = 0 => CERMetric_result(distance, count_chars) = One
  /\ (mean_count > 0 /\ win_chars = 0) =>
       /\ last_value = One
       /\ reported_cer(mean_total, mean_count) = One

\* Repeats collapsed, then every 0 removed.
RECURSIVE CollapseFrom(_, _)
CollapseFrom(s, prev) ==
  IF s = <<>> THEN <<>>
  ELSE IF Head(s) = prev THEN CollapseFrom(Tail(s), prev)
  ELSE <<Head(s)>> \o CollapseFrom(Tail(s), Head(s))

CollapseThenDropZero(s) == SelectSeq(CollapseFrom(s, -1), LAMBDA c : c # 0)

\* C8 as stated: greedy decoding collapses consecutive repeats and then
\* removes the blank, the blank being code 0.
ClaimC8_BlankIsZero ==
  dec_pc = "done" => dec_out = CollapseThenDropZero(dec_in)

EqualLengths(a) ==
  /\ Len(a.cnn_kernel_size) = Len(a.cnn_features_list)
  /\ Len(a.cnn_stride_size) = Len(a.cnn_features_list)
  /\ Len(a.cnn_pool_size) = Len(a.cnn_features_list)
  /\ Len(a.cnn_pool_strides) = Len(a.cnn_features_list)
  /\ Len(a.cnn_batch_norm) = Len(a.cnn_features_list)

\* C9 as stated: with per-block lists of unequal lengths get_crnn_output
\* fails; it never builds a model from a subset of the configured blocks.
ClaimC9_UnequalListsFail ==
  (build_pc # "ready" /\ ~ EqualLengths(arch)) => build_pc # "built"

====
